---- MODULE Spec2Model ----
(***************************************************************************)
(* Model of src/app_tree.py: the reading tree (class Node, class           *)
(* ReadingTree), its JSON snapshot file and the Streamlit add form that    *)
(* drives it.                                                              *)
(***************************************************************************)
EXTENDS Naturals, Sequences, FiniteSets, TLC

VARIABLES
    nodes,      \* ReadingTree.nodes: the dict title -> Node, in insertion order
    file,       \* the snapshot file at the path given to save / load
    call,       \* what happened last: the ReadingTree method called, or "external"
    args,       \* the arguments of that call, when it was add_node
    err,        \* how that call ended: "ok" or the exception it raised
    G,          \* the nx.DiGraph returned by the last to_graph call
    has_tree,   \* "tree" in st.session_state
    msg         \* the st.sidebar message shown by the last form submission

vars == <<nodes, file, call, args, err, G, has_tree, msg>>

(***************************************************************************)
(* Values.                                                                 *)
(***************************************************************************)
\* Python's None, for the Optional[str] fields.
NONE == "None"

\* The largest registry the model lets add_node grow.
MaxNodes == 2

Titles == {"A", "B"}
TitleInputs == Titles \cup {""}
Texts == {NONE, "x"}
Images == {NONE, "y"}
UUIDs == {"u1", "u2"}
\* Prerequisite lists: none, and one that names both titles and "Z", which is
\* never stored: a self reference in either work, a cycle when both hold it.
AntesInputs == {<<>>, <<"B", "Z", "A">>}

(***************************************************************************)
(* Python dict: a sequence of (key, node) items in insertion order.        *)
(***************************************************************************)
EmptyDict == <<>>

Keys(d) == {d[i].key : i \in DOMAIN d}

Get(d, k) == d[CHOOSE i \in DOMAIN d : d[i].key = k].node

\* DictSet that never looks for the key: every store appends an item.
DictSetAppend(d, k, v) == Append(d, [key |-> k, node |-> v])

\* d[k] = v: an existing key keeps its position, a new key goes last.
DictSet(d, k, v) ==
    IF k \in Keys(d)
    THEN [i \in DOMAIN d |-> IF d[i].key = k THEN [key |-> k, node |-> v] ELSE d[i]]
    ELSE Append(d, [key |-> k, node |-> v])

Values(d) == [i \in DOMAIN d |-> d[i].node]

(***************************************************************************)
(* class Node                                                              *)
(***************************************************************************)
\* x or y, for an Optional[str] x: None and "" are falsy.
OrStr(x, y) == IF x = NONE \/ x = "" THEN y ELSE x

\* antes or []
OrList(antes) == IF Len(antes) = 0 THEN <<>> ELSE antes

\* Node.__init__ with author and image_url stored in each other's place.
NodeSwapped(title, author, image_url, antes, id, uuid) ==
    [id        |-> OrStr(id, uuid),
     title     |-> title,
     author    |-> image_url,
     image_url |-> author,
     antes     |-> OrList(antes)]

\* Node.__init__; uuid is the value uuid.uuid4() returns if it is called.
Node(title, author, image_url, antes, id, uuid) ==
    [id        |-> OrStr(id, uuid),
     title     |-> title,
     author    |-> author,
     image_url |-> image_url,
     antes     |-> OrList(antes)]

(***************************************************************************)
(* ReadingTree.add_node                                                    *)
(***************************************************************************)
AddNodeRaises(d, title) == title \in Keys(d)

AddNodeErr(d, title) == IF AddNodeRaises(d, title) THEN "ValueError" ELSE "ok"

\* add_node that stores the new Node before it looks at the title.
AddNodeNodesOverwrite(d, title, author, image_url, antes, uuid) ==
    DictSet(d, title, Node(title, author, image_url, OrList(antes), NONE, uuid))

AddNodeNodes(d, title, author, image_url, antes, uuid) ==
    IF AddNodeRaises(d, title)
    THEN d
    ELSE DictSet(d, title, Node(title, author, image_url, OrList(antes), NONE, uuid))

(***************************************************************************)
(* ReadingTree.to_graph                                                    *)
(***************************************************************************)
NoGraph == [nodes |-> {}, edges |-> {}]

\* nx.DiGraph.add_node
G_add_node(g, t) == [nodes |-> g.nodes \cup {t}, edges |-> g.edges]

\* nx.DiGraph.add_edge: adds the end points too when they are not nodes yet.
G_add_edge(g, u, v) == [nodes |-> g.nodes \cup {u, v}, edges |-> g.edges \cup {<<u, v>>}]

\* The edge step without its membership test.
EdgeStepUnguarded(g, d, b, t) == G_add_edge(g, b, t)

\* if b in self.nodes: G.add_edge(b, t)
EdgeStep(g, d, b, t) == IF b \in Keys(d) THEN G_add_edge(g, b, t) ELSE g

\* for t in self.nodes: G.add_node(t)
RECURSIVE NodeLoop(_, _, _)
NodeLoop(g, d, i) ==
    IF i > Len(d) THEN g ELSE NodeLoop(G_add_node(g, d[i].key), d, i + 1)

\* for b in n.antes: ...
RECURSIVE AntesLoop(_, _, _, _, _)
AntesLoop(g, d, antes, t, j) ==
    IF j > Len(antes) THEN g ELSE AntesLoop(EdgeStep(g, d, antes[j], t), d, antes, t, j + 1)

\* for t, n in self.nodes.items(): ...
RECURSIVE ItemLoop(_, _, _)
ItemLoop(g, d, i) ==
    IF i > Len(d) THEN g
    ELSE ItemLoop(AntesLoop(g, d, d[i].node.antes, d[i].key, 1), d, i + 1)

to_graph(d) == ItemLoop(NodeLoop(NoGraph, d, 1), d, 1)

(***************************************************************************)
(* The snapshot file and Node.to_dict / Node.from_dict                     *)
(***************************************************************************)
\* Path(path).exists() is false.
Absent == [kind |-> "absent", data |-> <<>>]

\* The file exists and json.loads rejects its text (a torn or foreign file).
Malformed == [kind |-> "malformed", data |-> <<>>]

\* json.dumps(data, ensure_ascii=False, indent=2) written as UTF-8: the file
\* holds the list of dicts.
JsonDumps(data) == [kind |-> "json", data |-> data]

\* json.loads(p.read_text(encoding="utf-8")) of a file json.loads accepts.
JsonLoads(f) == f.data

to_dict(n) ==
    [id        |-> n.id,
     title     |-> n.title,
     author    |-> n.author,
     image_url |-> n.image_url,
     antes     |-> n.antes]

\* d.get(k, default)
DictGet(e, k, default) == IF k \in DOMAIN e THEN e[k] ELSE default

\* d["title"] raises KeyError
FromDictRaises(e) == "title" \notin DOMAIN e

\* from_dict that does not pass the stored id on.
from_dictFreshId(e, uuid) ==
    Node(e.title,
         DictGet(e, "author", NONE),
         DictGet(e, "image_url", NONE),
         DictGet(e, "antes", <<>>),
         NONE,
         uuid)

from_dict(e, uuid) ==
    Node(e.title,
         DictGet(e, "author", NONE),
         DictGet(e, "image_url", NONE),
         DictGet(e, "antes", <<>>),
         DictGet(e, "id", NONE),
         uuid)

(***************************************************************************)
(* ReadingTree.save                                                        *)
(***************************************************************************)
\* data = [n.to_dict() for n in self.nodes.values()]
SaveData(d) == [i \in DOMAIN d |-> to_dict(Values(d)[i])]

\* write_text opens the file for writing (truncating it) and then writes:
\* "ok", the open raises OSError ("open_fails": the file is untouched), or
\* the write raises OSError after the truncation ("write_fails").
SaveOutcomes == {"ok", "open_fails", "write_fails"}

SaveFile(d, f, outcome) ==
    CASE outcome = "ok"          -> JsonDumps(SaveData(d))
      [] outcome = "open_fails"  -> f
      [] outcome = "write_fails" -> Malformed

SaveErr(outcome) == IF outcome = "ok" THEN "ok" ELSE "OSError"

(***************************************************************************)
(* ReadingTree.load                                                        *)
(***************************************************************************)
\* for d in data: n = Node.from_dict(d); self.nodes[n.title] = n
\* us[i] is what uuid.uuid4() returns for entry i. The loop stops at the first
\* entry whose from_dict raises, with what it has stored so far.
RECURSIVE LoadLoop(_, _, _, _)
LoadLoop(d, data, us, i) ==
    IF i > Len(data) THEN [nodes |-> d, err |-> "ok"]
    ELSE IF FromDictRaises(data[i]) THEN [nodes |-> d, err |-> "KeyError"]
    ELSE LoadLoop(DictSet(d, from_dict(data[i], us[i]).title, from_dict(data[i], us[i])),
                  data, us, i + 1)

\* load that clears the registry before it looks for the file.
LoadResultClearsFirst(d, f, us) ==
    CASE f.kind = "absent"    -> [nodes |-> EmptyDict, err |-> "ok"]
      [] f.kind = "malformed" -> [nodes |-> d, err |-> "JSONDecodeError"]
      [] f.kind = "json"      -> LoadLoop(EmptyDict, JsonLoads(f), us, 1)

\* load that keeps what the registry held and stores the entries on top.
LoadResultMerge(d, f, us) ==
    CASE f.kind = "absent"    -> [nodes |-> d, err |-> "ok"]
      [] f.kind = "malformed" -> [nodes |-> d, err |-> "JSONDecodeError"]
      [] f.kind = "json"      -> LoadLoop(d, JsonLoads(f), us, 1)

\* The whole of load: [nodes, err] after the call on registry d and file f.
LoadResult(d, f, us) ==
    CASE f.kind = "absent"    -> [nodes |-> d, err |-> "ok"]
      [] f.kind = "malformed" -> [nodes |-> d, err |-> "JSONDecodeError"]
      [] f.kind = "json"      -> LoadLoop(EmptyDict, JsonLoads(f), us, 1)

\* The values uuid.uuid4() may return over one load of file f.
UuidDraws(f) == [1..Len(f.data) -> UUIDs]

(***************************************************************************)
(* The calls a client makes on one ReadingTree.                            *)
(***************************************************************************)
NoArgs == [title |-> "", author |-> NONE, image_url |-> NONE, antes |-> <<>>]

add_node(title, author, image_url, antes, uuid) ==
    /\ AddNodeRaises(nodes, title) \/ Len(nodes) < MaxNodes
    /\ nodes' = AddNodeNodes(nodes, title, author, image_url, antes, uuid)
    /\ err' = AddNodeErr(nodes, title)
    /\ call' = "add_node"
    /\ args' = [title |-> title, author |-> author, image_url |-> image_url,
                antes |-> antes]
    /\ G' = NoGraph
    /\ UNCHANGED <<file, has_tree, msg>>

ToGraph ==
    /\ G' = to_graph(nodes)
    /\ call' = "to_graph"
    /\ args' = NoArgs
    /\ err' = "ok"
    /\ UNCHANGED <<nodes, file, has_tree, msg>>

save(outcome) ==
    /\ file' = SaveFile(nodes, file, outcome)
    /\ err' = SaveErr(outcome)
    /\ call' = "save"
    /\ args' = NoArgs
    /\ G' = NoGraph
    /\ UNCHANGED <<nodes, has_tree, msg>>

load(us) ==
    /\ nodes' = LoadResult(nodes, file, us).nodes
    /\ err' = LoadResult(nodes, file, us).err
    /\ call' = "load"
    /\ args' = NoArgs
    /\ G' = NoGraph
    /\ UNCHANGED <<file, has_tree, msg>>

(***************************************************************************)
(* The file system: another program replaces or removes the snapshot.      *)
(***************************************************************************)
\* A complete entry after which one lacks "title".
TitleMissing ==
    JsonDumps(<<[id |-> "u1", title |-> "B", author |-> "x", image_url |-> NONE,
                 antes |-> <<>>],
                [id |-> "u2", author |-> "x"]>>)

\* Two entries with the same title.
TitleTwice ==
    JsonDumps(<<[id |-> "u1", title |-> "A", author |-> "x", image_url |-> NONE,
                 antes |-> <<>>],
                [id |-> "u2", title |-> "A", author |-> NONE, image_url |-> "y",
                 antes |-> <<"B", "Z">>]>>)

\* Entries with only some of the optional keys, one with an empty id.
Sparse ==
    JsonDumps(<<[title |-> "B"], [id |-> "", title |-> "A", antes |-> <<"B", "Z", "A">>]>>)

\* A snapshot as an earlier session's save wrote it.
OneWork ==
    JsonDumps(<<[id |-> "u2", title |-> "B", author |-> "x", image_url |-> NONE,
                 antes |-> <<>>]>>)

Snapshots == {Absent, Malformed, TitleMissing, TitleTwice, Sparse}

ExternalWrite(f) ==
    /\ file' = f
    /\ call' = "external"
    /\ args' = NoArgs
    /\ UNCHANGED <<nodes, err, G, has_tree, msg>>

(***************************************************************************)
(* The Streamlit script: one run per action.                               *)
(***************************************************************************)
NoMsg == "none"
MsgRequired == "El titulo es obligatorio"
MsgDuplicate == "Ya existe una obra con ese titulo"
MsgAdded == "Obra anadida"
MsgOSError == "OSError"

\* if not tree.nodes: st.info(...) else: G = tree.to_graph()
Canvas(d) == IF d = EmptyDict THEN NoGraph ELSE to_graph(d)

\* if "tree" not in st.session_state: tree = ReadingTree(); tree.load(DATA_FILE);
\* st.session_state.tree = tree. An exception from load ends the run before
\* the tree is stored, and the next run starts again.
Startup(us) ==
    /\ ~has_tree
    /\ has_tree' = (LoadResult(EmptyDict, file, us).err = "ok")
    /\ nodes' = IF has_tree' THEN LoadResult(EmptyDict, file, us).nodes ELSE EmptyDict
    /\ err' = LoadResult(EmptyDict, file, us).err
    /\ call' = "load"
    /\ args' = NoArgs
    /\ G' = IF has_tree' THEN Canvas(nodes') ELSE NoGraph
    /\ UNCHANGED <<file, msg>>

\* st.multiselect("Leer antes", options=sorted(tree.nodes.keys())): the chosen
\* options, each at most once, in the order chosen.
Selections(d) ==
    {s \in UNION {[1..n -> Keys(d)] : n \in 0..Cardinality(Keys(d))} :
        \A i, j \in DOMAIN s : i # j => s[i] # s[j]}

\* The registry after the submit handler.
SubmitNodes(d, title, author, image_url, antes, uuid) ==
    IF title = "" THEN d
    ELSE AddNodeNodes(d, title, OrStr(author, NONE), OrStr(image_url, NONE), antes, uuid)

\* tree.save(DATA_FILE) is reached only when add_node did not raise.
SubmitSaves(d, title) == title # "" /\ ~AddNodeRaises(d, title)

\* A submit handler that never calls save.
SubmitFileNoSave(d, f, title, author, image_url, antes, uuid, outcome) == f

\* The file after the submit handler.
SubmitFile(d, f, title, author, image_url, antes, uuid, outcome) ==
    IF SubmitSaves(d, title)
    THEN SaveFile(SubmitNodes(d, title, author, image_url, antes, uuid), f, outcome)
    ELSE f

\* The message the handler shows.
SubmitMsg(d, title, outcome) ==
    IF title = "" THEN MsgRequired
    ELSE IF AddNodeRaises(d, title) THEN MsgDuplicate
    ELSE IF SaveErr(outcome) = "ok" THEN MsgAdded
    ELSE MsgOSError

Submit(title, author, image_url, antes, uuid, outcome) ==
    /\ has_tree
    /\ title = "" \/ AddNodeRaises(nodes, title) \/ Len(nodes) < MaxNodes
    /\ nodes' = SubmitNodes(nodes, title, author, image_url, antes, uuid)
    /\ file' = SubmitFile(nodes, file, title, author, image_url, antes, uuid, outcome)
    /\ msg' = SubmitMsg(nodes, title, outcome)
    /\ call' = IF title = "" THEN call
               ELSE IF SubmitSaves(nodes, title) THEN "save" ELSE "add_node"
    /\ args' = IF title = "" THEN args
               ELSE IF SubmitSaves(nodes, title) THEN NoArgs
               ELSE [title |-> title, author |-> OrStr(author, NONE),
                     image_url |-> OrStr(image_url, NONE), antes |-> antes]
    /\ err' = IF title = "" THEN err
              ELSE IF SubmitSaves(nodes, title) THEN SaveErr(outcome)
              ELSE AddNodeErr(nodes, title)
    /\ G' = Canvas(nodes')
    /\ UNCHANGED has_tree

(***************************************************************************)
(* Specifications.                                                         *)
(***************************************************************************)
Init ==
    /\ nodes = EmptyDict
    /\ file = Absent
    /\ call = "none"
    /\ args = NoArgs
    /\ err = "ok"
    /\ G = NoGraph
    /\ has_tree = FALSE
    /\ msg = NoMsg

\* A client of the registry in memory. No property checked under Spec reads
\* the value of a generated id, so uuid4 is given one value here.
Next ==
    \/ \E title \in TitleInputs, author \in Texts, image_url \in Images,
          antes \in AntesInputs, uuid \in {"u1"} :
            add_node(title, author, image_url, antes, uuid)
    \/ ToGraph

Spec == Init /\ [][Next]_vars

\* A client of the registry and its snapshot file; uuid4 may return either
\* value of UUIDs on every call.
StoreAntes == {<<"B", "Z", "A">>}

NextStore ==
    \/ \E title \in Titles, author \in Texts, image_url \in Images,
          antes \in StoreAntes, uuid \in UUIDs :
            add_node(title, author, image_url, antes, uuid)
    \/ \E outcome \in SaveOutcomes : save(outcome)
    \/ \E us \in UuidDraws(file) : load(us)
    \/ \E f \in Snapshots : ExternalWrite(f)

SpecStore == Init /\ [][NextStore]_vars

\* The application: the session's first run and the add form, with the image
\* field left blank.
InitApp ==
    /\ nodes = EmptyDict
    /\ file \in {Absent, Malformed, OneWork}
    /\ call = "none"
    /\ args = NoArgs
    /\ err = "ok"
    /\ G = NoGraph
    /\ has_tree = FALSE
    /\ msg = NoMsg

NextApp ==
    \/ \E us \in UuidDraws(file) : Startup(us)
    \/ \E antes \in Selections(nodes), title \in TitleInputs, author \in {"", "x"},
          image_url \in {""}, uuid \in {"u1"} :
            \E outcome \in IF SubmitSaves(nodes, title) THEN SaveOutcomes ELSE {"ok"} :
                Submit(title, author, image_url, antes, uuid, outcome)

SpecApp == InitApp /\ [][NextApp]_vars

(***************************************************************************)
(* Properties of the registry in memory, checked under Spec.               *)
(***************************************************************************)
\* C1: add_node with a title that is already a key of the registry raises the
\* duplicate-title error (ValueError) and leaves the registry as it was: the
\* same items, in the same order, with every field of every Node unchanged.
C1_DuplicateRejected ==
    [][(call' = "add_node" /\ args'.title \in Keys(nodes))
          => (err' = "ValueError" /\ nodes' = nodes)]_vars

\* A duplicate add, with an author other than the stored one, has been refused.
C1_Witness ==
    /\ call = "add_node"
    /\ err = "ValueError"
    /\ args.title \in Keys(nodes)
    /\ Get(nodes, args.title).author # args.author
    /\ Get(nodes, args.title).antes # args.antes

\* C2: add_node with title = "" fails before any mutation, so the call never
\* ends normally and no work is ever stored under the empty title.
C2_EmptyTitleRejected ==
    /\ (call = "add_node" /\ args.title = "") => err # "ok"
    /\ "" \notin Keys(nodes)

\* C3: from the empty registry, each add_node with a title not yet stored ends
\* normally and adds exactly one work, keyed by the title and carrying the
\* title, author, image_url and antes (in the order given) of the call; the
\* works stored before it keep their place and all their fields.
C3_AddStoresSupplied ==
    [][(call' = "add_node" /\ args'.title \notin Keys(nodes))
          => /\ err' = "ok"
             /\ Len(nodes') = Len(nodes) + 1
             /\ \A i \in DOMAIN nodes : nodes'[i] = nodes[i]
             /\ nodes'[Len(nodes')].key = args'.title
             /\ nodes'[Len(nodes')].node.title = args'.title
             /\ nodes'[Len(nodes')].node.author = args'.author
             /\ nodes'[Len(nodes')].node.image_url = args'.image_url
             /\ nodes'[Len(nodes')].node.antes = args'.antes]_vars

\* A second work, with an author, an image and prerequisites, has been added.
C3_Witness ==
    /\ call = "add_node"
    /\ err = "ok"
    /\ Len(nodes) = 2
    /\ args.title # ""
    /\ args.author = "x"
    /\ args.image_url = "y"
    /\ args.antes = <<"B", "Z", "A">>
    /\ nodes[1].node.author = NONE
    /\ nodes[1].node.image_url = "y"

\* C6: to_graph ends normally on every registry, cycles, self references and
\* dangling titles included; the nodes of the graph are exactly the titles of
\* the registry, and its edges exactly the pairs (P, W) with W a work of the
\* registry, P listed in W.antes and P a title of the registry.
C6_GraphOfRegistry ==
    call = "to_graph" =>
        /\ err = "ok"
        /\ G.nodes = Keys(nodes)
        /\ G.edges = {pw \in Keys(nodes) \X Keys(nodes) :
                        \E j \in DOMAIN Get(nodes, pw[2]).antes :
                            Get(nodes, pw[2]).antes[j] = pw[1]}

\* to_graph has run on a registry with a cycle, two self references and a
\* prerequisite that is no title of the registry.
C6_Witness ==
    /\ call = "to_graph"
    /\ Keys(nodes) = {"A", "B"}
    /\ G.edges = {<<"A", "B">>, <<"B", "A">>, <<"A", "A">>, <<"B", "B">>}
    /\ \E i \in DOMAIN nodes : \E j \in DOMAIN nodes[i].node.antes :
           nodes[i].node.antes[j] \notin Keys(nodes)

(***************************************************************************)
(* Properties of the registry and its snapshot, checked under SpecStore.   *)
(***************************************************************************)
\* The newest entry of data with title t.
LastEntry(data, t) ==
    data[CHOOSE i \in DOMAIN data :
            /\ data[i].title = t
            /\ \A j \in DOMAIN data : j > i => data[j].title # t]

\* C4: a registry saved and then loaded into an empty registry comes back with
\* the same titles, and every work with the same id, title, author, image_url
\* and antes (same order), whatever uuid4 would return during the load.
C4_RoundTrip ==
    \A us \in [1..Len(nodes) -> UUIDs] :
        LET f == SaveFile(nodes, Absent, "ok")
            r == LoadResult(EmptyDict, f, us)
        IN  /\ r.err = "ok"
            /\ Keys(r.nodes) = Keys(nodes)
            /\ Len(r.nodes) = Len(nodes)
            /\ \A t \in Keys(nodes) :
                  /\ Get(r.nodes, t).id = Get(nodes, t).id
                  /\ Get(r.nodes, t).title = Get(nodes, t).title
                  /\ Get(r.nodes, t).author = Get(nodes, t).author
                  /\ Get(r.nodes, t).image_url = Get(nodes, t).image_url
                  /\ Get(r.nodes, t).antes = Get(nodes, t).antes

\* A registry of two works has been saved, loaded back, and is what it was.
C4_Witness ==
    /\ call = "load"
    /\ err = "ok"
    /\ Len(nodes) = 2
    /\ file = SaveFile(nodes, Absent, "ok")
    /\ \E i, j \in DOMAIN nodes : nodes[i].node.id # nodes[j].node.id
    /\ \E i \in DOMAIN nodes :
          /\ nodes[i].node.author = "x"
          /\ nodes[i].node.image_url = NONE
          /\ nodes[i].node.antes # <<>>

\* C5: a load that fails (a malformed snapshot, or an entry without "title")
\* leaves the registry holding what it held before the call.
C5_FailedLoadKeepsRegistry ==
    [][(call' = "load" /\ err' # "ok") => nodes' = nodes]_vars

\* C7: load on a path that does not exist returns normally and leaves the
\* registry as it was.
C7_LoadMissingFileNoOp ==
    [][(call' = "load" /\ file.kind = "absent") => (err' = "ok" /\ nodes' = nodes)]_vars

\* load has been called on a registry with works while no file existed.
C7_Witness ==
    /\ call = "load"
    /\ file.kind = "absent"
    /\ err = "ok"
    /\ Len(nodes) = 2

\* C8: a load that succeeds on an existing snapshot replaces the registry: its
\* titles are exactly the titles of the snapshot's entries, each work is the
\* one parsed from the snapshot's (last) entry of that title, and no work that
\* was stored before and is absent from the snapshot remains.
C8_LoadReplaces ==
    [][(call' = "load" /\ file.kind = "json" /\ err' = "ok")
          => /\ Keys(nodes') = {file.data[i].title : i \in DOMAIN file.data}
             /\ Len(nodes') = Cardinality(Keys(nodes'))
             /\ \A i \in DOMAIN nodes' :
                   LET n == nodes'[i].node
                       e == LastEntry(file.data, nodes'[i].key)
                   IN  /\ n.title = e.title
                       /\ n.author = (IF "author" \in DOMAIN e THEN e.author ELSE NONE)
                       /\ n.image_url =
                             (IF "image_url" \in DOMAIN e THEN e.image_url ELSE NONE)
                       /\ n.antes = (IF "antes" \in DOMAIN e THEN e.antes ELSE <<>>)
                       /\ IF "id" \in DOMAIN e /\ e.id # ""
                          THEN n.id = e.id ELSE n.id \in UUIDs
             /\ \A t \in Keys(nodes) :
                   t \notin {file.data[i].title : i \in DOMAIN file.data}
                       => t \notin Keys(nodes')]_vars

\* The snapshot that holds title A twice has been loaded: A alone is stored.
C8_Witness ==
    /\ call = "load"
    /\ err = "ok"
    /\ file = TitleTwice
    /\ Keys(nodes) = {"A"}

\* C9: in every state each work is stored under the key equal to its own
\* title and no two items of the registry have the same key.
C9_TitlesUnique ==
    /\ \A i \in DOMAIN nodes : nodes[i].key = nodes[i].node.title
    /\ \A i, j \in DOMAIN nodes : i # j => nodes[i].key # nodes[j].key

\* A snapshot with the same title twice has been loaded.
C9_Witness ==
    /\ call = "load"
    /\ err = "ok"
    /\ file = TitleTwice
    /\ Len(nodes) = 1
    /\ nodes[1].node.id = "u2"

(***************************************************************************)
(* Properties of the application, checked under SpecApp.                   *)
(***************************************************************************)
\* The works a snapshot file holds.
SnapshotWorks(f) == IF f.kind = "json" THEN {f.data[i] : i \in DOMAIN f.data} ELSE {}

\* The works of a registry, field by field.
RegistryWorks(d) ==
    {[id |-> d[i].node.id, title |-> d[i].node.title, author |-> d[i].node.author,
      image_url |-> d[i].node.image_url, antes |-> d[i].node.antes] : i \in DOMAIN d}

====
